---- MODULE Spec2Model ----
(***************************************************************************)
(* Model of todo_app.py: the TaskList doubly linked list (add, delete,     *)
(* merge sort), the tombstone sweep of App.refresh_ui, TaskNode            *)
(* serialization, and the App handlers that load, change and save tasks.   *)
(*                                                                         *)
(* The heap is a set of cells 1..MaxNodes (TaskNode objects, constructed   *)
(* in order) plus one cell for the temporary merge head of _merge.  A      *)
(* reference is a cell number, None is 0.  Strings that the code compares  *)
(* (due dates) are sequences of character codes.                           *)
(***************************************************************************)
EXTENDS Integers, Sequences, FiniteSets, TLC

\* ------------------------------------------------------------------ bounds
MaxNodes == 3

\* --------------------------------------------------------------- constants
None == 0

Nodes == 1..MaxNodes

\* the TaskNode("dummy_merge_head") object that _merge allocates
Dummy == MaxNodes + 1

Cells == Nodes \cup {Dummy}

Priorities == {"high", "medium", "low"}

Statuses == {"todo", "doing", "done", "deleted"}

Keys == {"priority", "due_date"}

\* A due_date value is Python's None or a str; a str is its character codes.
NoneDate == [isNone |-> TRUE, chars |-> <<>>]

Str(cs) == [isNone |-> FALSE, chars |-> cs]

\* "9999-12-31", the default of get_value for a task without due date
LateDate == Str(<<57, 57, 57, 57, 45, 49, 50, 45, 51, 49>>)

\* "2025-01-01"
Date_2025_01_01 == Str(<<50, 48, 50, 53, 45, 48, 49, 45, 48, 49>>)

\* "2025-11-20", the due date of the first default task
Date_2025_11_20 == Str(<<50, 48, 50, 53, 45, 49, 49, 45, 50, 48>>)

\* the due_date values a task is given: None, or a date string
DueDates == {NoneDate, Date_2025_01_01, Date_2025_11_20, LateDate}

\* the tasks that AddTaskNode draws from: the first two default tasks of
\* App.__init__, and tasks as load_data rebuilds them from a file
TaskInputs ==
    { [description |-> "Finish Data Structures Project",
       priority |-> "high",   due_date |-> Date_2025_11_20, status |-> "todo"],
      [description |-> "Buy Groceries",
       priority |-> "low",    due_date |-> NoneDate,        status |-> "todo"],
      [description |-> "Read Documentation",
       priority |-> "medium", due_date |-> NoneDate,        status |-> "deleted"],
      [description |-> "a",
       priority |-> "high",   due_date |-> Date_2025_01_01, status |-> "deleted"],
      [description |-> "b",
       priority |-> "low",    due_date |-> LateDate,        status |-> "done"] }

\* An xp_value argument is Python's None or an int.
NoneXp == [isNone |-> TRUE, val |-> 0]

SomeXp(v) == [isNone |-> FALSE, val |-> v]

\* ------------------------------------------------------------------- state
VARIABLES
    head,       \* TaskList.head
    count,      \* TaskList.count
    next,       \* TaskNode.next of every cell
    prev,       \* TaskNode.prev of every cell
    status,     \* TaskNode.status
    priority,   \* TaskNode.priority
    due_date,   \* TaskNode.due_date
    description, \* TaskNode.description
    xp_value,   \* TaskNode.xp_value
    tags,       \* TaskNode.tags
    nAlloc,     \* number of TaskNode objects constructed so far
    total_xp,   \* App.total_xp
    file,       \* the content of DATA_FILE
    result,     \* the value returned by the last operation that returns one
    running,    \* NotificationService.running
    lastOp,     \* history: the operation that produced this state
    preList,    \* history: forward traversal before that operation
    preCount,   \* history: count before that operation
    scanPc,     \* where the thread of _check_loop is
    scanCur,    \* the local variable current of _check_loop
    visited,    \* history: the nodes the running pass has looked at
    raced,      \* history: a sort_by was under way during the running pass
    pending,    \* the writes the sort_by under way has still to make
    sorts       \* number of sort_by calls made so far

vars == <<head, count, next, prev, status, priority, due_date, description,
          xp_value, tags, nAlloc, total_xp, file, result, running,
          lastOp, preList, preCount,
          scanPc, scanCur, visited, raced, pending, sorts>>

\* the thread of NotificationService and the sort_by under way
thread == <<scanPc, scanCur, visited, raced, pending, sorts>>

\* the fields of the TaskNode objects other than the links
fields == <<status, priority, due_date, description, xp_value, tags>>

\* the thread was never started and no sort_by is under way
NoThread ==
    /\ scanPc = "off"
    /\ scanCur = None
    /\ visited = <<>>
    /\ raced = FALSE
    /\ pending = <<>>
    /\ sorts = 0

\* ------------------------------------------------------------- TaskNode
\* {"high": 100, "medium": 50, "low": 20}.get(priority, 20)
DefaultXp(p) ==
    CASE p = "high" -> 100
      [] p = "medium" -> 50
      [] p = "low" -> 20
      [] OTHER -> 20

\* TaskNode.__init__: the fields of the new object (its links are None)
TaskNode(desc, pri, due, st, xp) ==
    [description |-> desc,
     status |-> st,
     priority |-> pri,
     due_date |-> due,
     tags |-> <<>>,
     xp_value |-> IF ~xp.isNone THEN xp.val ELSE DefaultXp(pri)]

\* the fields of the object in cell c
FieldsOf(c) ==
    [description |-> description[c],
     status |-> status[c],
     priority |-> priority[c],
     due_date |-> due_date[c],
     tags |-> tags[c],
     xp_value |-> xp_value[c]]

\* to_dict writing the XP of the priority table in place of the task's own
to_dict_DefaultXp(c) ==
    [description |-> description[c],
     status |-> status[c],
     priority |-> priority[c],
     due_date |-> due_date[c],
     xp_value |-> SomeXp(DefaultXp(priority[c]))]

\* TaskNode.to_dict: a dict is a function on its keys
to_dict(c) ==
    [description |-> description[c],
     status |-> status[c],
     priority |-> priority[c],
     due_date |-> due_date[c],
     xp_value |-> SomeXp(xp_value[c])]

\* the keys that from_dict reads
RequiredKeys == {"description", "priority", "due_date", "status", "xp_value"}

\* the state of a cell that holds no object yet
NoNode == TaskNode("", "medium", NoneDate, "todo", NoneXp)

\* from_dict that does not pass xp_value on
from_dict_DefaultXp(data) ==
    IF RequiredKeys \subseteq DOMAIN data
    THEN [ok |-> TRUE,
          node |-> TaskNode(data.description, data.priority, data.due_date,
                            data.status, NoneXp)]
    ELSE [ok |-> FALSE, node |-> NoNode]

\* TaskNode.from_dict: the new object, or ok = FALSE for the KeyError of a
\* missing key
from_dict(data) ==
    IF RequiredKeys \subseteq DOMAIN data
    THEN [ok |-> TRUE,
          node |-> TaskNode(data.description, data.priority, data.due_date,
                            data.status, data.xp_value)]
    ELSE [ok |-> FALSE, node |-> NoNode]

\* cell c becomes the object t
Construct(c, t) ==
    /\ description' = [description EXCEPT ![c] = t.description]
    /\ status' = [status EXCEPT ![c] = t.status]
    /\ priority' = [priority EXCEPT ![c] = t.priority]
    /\ due_date' = [due_date EXCEPT ![c] = t.due_date]
    /\ tags' = [tags EXCEPT ![c] = t.tags]
    /\ xp_value' = [xp_value EXCEPT ![c] = t.xp_value]

\* ----------------------------------------------------------- list helpers
\* forward traversal from n, at most k cells (k guards against a cycle)
RECURSIVE Traverse(_, _, _)
Traverse(n, nx, k) ==
    IF n = None \/ k = 0 THEN <<>>
    ELSE <<n>> \o Traverse(nx[n], nx, k - 1)

Fuel == MaxNodes + 2

\* TaskList.get_all_tasks
get_all_tasks(h, nx) == Traverse(h, nx, Fuel)

ListSeq == get_all_tasks(head, next)

Range(s) == {s[i] : i \in 1..Len(s)}

\* the list as the record that the operations below transform
TheList == [head |-> head, count |-> count, next |-> next, prev |-> prev]

\* ------------------------------------------------------ TaskList.add/delete
\* add_task_node without "self.count += 1"
add_task_node_NoCount(L, new_task) ==
    IF L.head = None
    THEN [L EXCEPT !.head = new_task]
    ELSE LET chain == Traverse(L.head, L.next, Fuel)
             current == chain[Len(chain)]
         IN [L EXCEPT !.next[current] = new_task,
                      !.prev[new_task] = current]

add_task_node(L, new_task) ==
    IF L.head = None
    THEN [L EXCEPT !.head = new_task, !.count = L.count + 1]
    ELSE LET chain == Traverse(L.head, L.next, Fuel)
             current == chain[Len(chain)]
         IN [L EXCEPT !.next[current] = new_task,
                      !.prev[new_task] = current,
                      !.count = L.count + 1]

\* delete_task_node without "node.next.prev = node.prev"
delete_task_node_NoBackLink(L, node) ==
    IF node = None THEN L
    ELSE IF node = L.head
    THEN LET h2 == L.next[node]
         IN [L EXCEPT !.head = h2,
                      !.prev = IF h2 # None THEN [L.prev EXCEPT ![h2] = None]
                               ELSE L.prev,
                      !.count = L.count - 1]
    ELSE LET p == L.prev[node]
             n == L.next[node]
             nx1 == IF p # None THEN [L.next EXCEPT ![p] = n] ELSE L.next
         IN [L EXCEPT !.next = nx1, !.count = L.count - 1]

\* delete_task_node without the "node == self.head" branch
delete_task_node_NoHead(L, node) ==
    IF node = None THEN L
    ELSE LET p == L.prev[node]
             n == L.next[node]
             nx1 == IF p # None THEN [L.next EXCEPT ![p] = n] ELSE L.next
             pv1 == IF n # None THEN [L.prev EXCEPT ![n] = p] ELSE L.prev
         IN [L EXCEPT !.next = nx1, !.prev = pv1, !.count = L.count - 1]

delete_task_node(L, node) ==
    IF node = None THEN L
    ELSE IF node = L.head
    THEN LET h2 == L.next[node]
         IN [L EXCEPT !.head = h2,
                      !.prev = IF h2 # None THEN [L.prev EXCEPT ![h2] = None]
                               ELSE L.prev,
                      !.count = L.count - 1]
    ELSE LET p == L.prev[node]
             n == L.next[node]
             nx1 == IF p # None THEN [L.next EXCEPT ![p] = n] ELSE L.next
             pv1 == IF n # None THEN [L.prev EXCEPT ![n] = p] ELSE L.prev
         IN [L EXCEPT !.next = nx1, !.prev = pv1, !.count = L.count - 1]

\* ------------------------------------------------ App.refresh_ui: the sweep
\* the sweep reading current.next only after the removal, and from the
\* successor: the node after a removed node is skipped
RECURSIVE SweepLoop_Skip(_, _, _)
SweepLoop_Skip(L, st, current) ==
    IF current = None THEN L
    ELSE LET next_node == L.next[current]
         IN IF st[current] = "deleted"
            THEN SweepLoop_Skip(delete_task_node(L, current), st,
                                IF next_node # None THEN L.next[next_node]
                                ELSE None)
            ELSE SweepLoop_Skip(L, st, next_node)

RECURSIVE SweepLoop(_, _, _)
SweepLoop(L, st, current) ==
    IF current = None THEN L
    ELSE LET next_node == L.next[current]
             L2 == IF st[current] = "deleted"
                   THEN delete_task_node(L, current) ELSE L
         IN SweepLoop(L2, st, next_node)

\* ------------------------------------------ TaskList.get_tasks_by_status
RECURSIVE FilterLoop(_, _, _, _, _)
FilterLoop(nx, st, current, s, tasks) ==
    IF current = None THEN tasks
    ELSE FilterLoop(nx, st, nx[current], s,
                    IF st[current] = s THEN Append(tasks, current) ELSE tasks)

\* get_tasks_by_status returning at the first match
get_tasks_by_status_First(L, st, s) ==
    LET all == FilterLoop(L.next, st, L.head, s, <<>>)
    IN IF all = <<>> THEN all ELSE <<all[1]>>

get_tasks_by_status(L, st, s) == FilterLoop(L.next, st, L.head, s, <<>>)

\* ------------------------------------------------------------ merge sort
\* Python's <= on two str values: code point by code point, a proper prefix
\* is smaller
RECURSIVE LexLE(_, _)
LexLE(a, b) ==
    IF a = <<>> THEN TRUE
    ELSE IF b = <<>> THEN FALSE
    ELSE IF a[1] < b[1] THEN TRUE
    ELSE IF a[1] > b[1] THEN FALSE
    ELSE LexLE(Tail(a), Tail(b))

\* {"high": 3, "medium": 2, "low": 1}.get(p, 0)
priorityValue(p) ==
    CASE p = "high" -> 3
      [] p = "medium" -> 2
      [] p = "low" -> 1
      [] OTHER -> 0

\* node.due_date if node.due_date else "9999-12-31"
dueDateOrMax(d) ==
    IF ~d.isNone /\ d.chars # <<>> THEN d ELSE LateDate

get_value(node, key) ==
    IF key = "priority" THEN priorityValue(priority[node])
    ELSE IF key = "due_date" THEN dueDateOrMax(due_date[node])
    ELSE 0

\* priority compared ascending
LeftFirst_Ascending(left, right, key) ==
    IF key = "priority"
    THEN get_value(left, key) <= get_value(right, key)
    ELSE LexLE(get_value(left, key).chars, get_value(right, key).chars)

\* due date compared descending
LeftFirst_Descending(left, right, key) ==
    IF key = "priority"
    THEN get_value(left, key) >= get_value(right, key)
    ELSE LexLE(get_value(right, key).chars, get_value(left, key).chars)

\* strict comparisons: on a tie the right node goes first
LeftFirst_Strict(left, right, key) ==
    IF key = "priority"
    THEN get_value(left, key) > get_value(right, key)
    ELSE ~LexLE(get_value(right, key).chars, get_value(left, key).chars)

\* the test of _merge that puts the left node first
LeftFirst(left, right, key) ==
    IF key = "priority"
    THEN get_value(left, key) >= get_value(right, key)
    ELSE LexLE(get_value(left, key).chars, get_value(right, key).chars)

RECURSIVE SplitSlow(_, _, _)
SplitSlow(nx, slow, fast) ==
    IF fast # None /\ nx[fast] # None
    THEN SplitSlow(nx, nx[slow], nx[nx[fast]])
    ELSE slow

\* _split without "second_half.prev = None"
_split_KeepBackLink(H, hd) ==
    LET slow == SplitSlow(H.next, hd, H.next[hd])
        second_half == H.next[slow]
    IN [left |-> hd, right |-> second_half,
        next |-> [H.next EXCEPT ![slow] = None],
        prev |-> H.prev]

\* H is the heap [next, prev]; the result carries the two halves
_split(H, hd) ==
    LET slow == SplitSlow(H.next, hd, H.next[hd])
        second_half == H.next[slow]
    IN [left |-> hd, right |-> second_half,
        next |-> [H.next EXCEPT ![slow] = None],
        prev |-> IF second_half # None
                 THEN [H.prev EXCEPT ![second_half] = None] ELSE H.prev]

\* the merge loop without "Attach remaining nodes"
RECURSIVE MergeLoop_DropRemaining(_, _, _, _, _)
MergeLoop_DropRemaining(H, left, right, tail, key) ==
    IF left # None /\ right # None
    THEN IF LeftFirst(left, right, key)
         THEN LET H1 == [next |-> [H.next EXCEPT ![tail] = left],
                         prev |-> [H.prev EXCEPT ![left] = tail]]
              IN MergeLoop_DropRemaining(H1, H1.next[left], right,
                                         H1.next[tail], key)
         ELSE LET H1 == [next |-> [H.next EXCEPT ![tail] = right],
                         prev |-> [H.prev EXCEPT ![right] = tail]]
              IN MergeLoop_DropRemaining(H1, left, H1.next[right],
                                         H1.next[tail], key)
    ELSE [next |-> [H.next EXCEPT ![tail] = None], prev |-> H.prev]

RECURSIVE MergeLoop(_, _, _, _, _)
MergeLoop(H, left, right, tail, key) ==
    IF left # None /\ right # None
    THEN IF LeftFirst(left, right, key)
         THEN LET H1 == [next |-> [H.next EXCEPT ![tail] = left],
                         prev |-> [H.prev EXCEPT ![left] = tail]]
              IN MergeLoop(H1, H1.next[left], right, H1.next[tail], key)
         ELSE LET H1 == [next |-> [H.next EXCEPT ![tail] = right],
                         prev |-> [H.prev EXCEPT ![right] = tail]]
              IN MergeLoop(H1, left, H1.next[right], H1.next[tail], key)
    ELSE LET remaining == IF left # None THEN left ELSE right
         IN IF remaining # None
            THEN [next |-> [H.next EXCEPT ![tail] = remaining],
                  prev |-> [H.prev EXCEPT ![remaining] = tail]]
            ELSE H

_merge(H, left, right, key) ==
    LET H0 == [next |-> [H.next EXCEPT ![Dummy] = None],
               prev |-> [H.prev EXCEPT ![Dummy] = None]]
        H1 == MergeLoop(H0, left, right, Dummy, key)
        merged_head == H1.next[Dummy]
    IN [head |-> merged_head,
        next |-> H1.next,
        prev |-> IF merged_head # None
                 THEN [H1.prev EXCEPT ![merged_head] = None] ELSE H1.prev]

\* merge_sort handing the halves to _merge in the wrong order
RECURSIVE merge_sort_Swapped(_, _, _)
merge_sort_Swapped(H, hd, key) ==
    IF hd = None \/ H.next[hd] = None
    THEN [head |-> hd, next |-> H.next, prev |-> H.prev]
    ELSE LET S == _split(H, hd)
             l == merge_sort_Swapped([next |-> S.next, prev |-> S.prev],
                                     S.left, key)
             r == merge_sort_Swapped([next |-> l.next, prev |-> l.prev],
                                     S.right, key)
         IN _merge([next |-> r.next, prev |-> r.prev], r.head, l.head, key)

RECURSIVE merge_sort(_, _, _)
merge_sort(H, hd, key) ==
    IF hd = None \/ H.next[hd] = None
    THEN [head |-> hd, next |-> H.next, prev |-> H.prev]
    ELSE LET S == _split(H, hd)
             l == merge_sort([next |-> S.next, prev |-> S.prev], S.left, key)
             r == merge_sort([next |-> l.next, prev |-> l.prev], S.right, key)
         IN _merge([next |-> r.next, prev |-> r.prev], l.head, r.head, key)

\* a merge head that nothing refers to any more is reclaimed
Reclaim(L) ==
    IF L.head # Dummy /\ \A c \in Cells : L.next[c] # Dummy /\ L.prev[c] # Dummy
    THEN [L EXCEPT !.next[Dummy] = None, !.prev[Dummy] = None]
    ELSE L

\* sort_by counting the nodes from 1
sort_by_CountFromOne(L, key) ==
    LET m == merge_sort([next |-> L.next, prev |-> L.prev], L.head, key)
    IN Reclaim([head |-> m.head,
                count |-> 1 + Len(Traverse(m.head, m.next, Fuel)),
                next |-> m.next,
                prev |-> m.prev])

sort_by(L, key) ==
    LET m == merge_sort([next |-> L.next, prev |-> L.prev], L.head, key)
    IN Reclaim([head |-> m.head,
                count |-> Len(Traverse(m.head, m.next, Fuel)),
                next |-> m.next,
                prev |-> m.prev])

\* ------------------------------------- sort_by as a sequence of writes
\* T is the heap [next, prev] with the log of the writes made so far; a
\* write is [f, c, v]: field f of cell c (or of the TaskList) becomes v
Wr(T, f, c, v) ==
    [next |-> IF f = "next" THEN [T.next EXCEPT ![c] = v] ELSE T.next,
     prev |-> IF f = "prev" THEN [T.prev EXCEPT ![c] = v] ELSE T.prev,
     log |-> Append(T.log, [f |-> f, c |-> c, v |-> v])]

_split_writes(T, hd) ==
    LET slow == SplitSlow(T.next, hd, T.next[hd])
        second_half == T.next[slow]
        T1 == IF second_half # None THEN Wr(T, "prev", second_half, None)
              ELSE T
    IN [left |-> hd, right |-> second_half, T |-> Wr(T1, "next", slow, None)]

\* the merge loop without "Attach remaining nodes"
RECURSIVE MergeLoop_writes_NoRemaining(_, _, _, _, _)
MergeLoop_writes_NoRemaining(T, left, right, tail, key) ==
    IF left # None /\ right # None
    THEN IF LeftFirst(left, right, key)
         THEN LET T1 == Wr(Wr(T, "next", tail, left), "prev", left, tail)
              IN MergeLoop_writes_NoRemaining(T1, T1.next[left], right,
                                              T1.next[tail], key)
         ELSE LET T1 == Wr(Wr(T, "next", tail, right), "prev", right, tail)
              IN MergeLoop_writes_NoRemaining(T1, left, T1.next[right],
                                              T1.next[tail], key)
    ELSE T

RECURSIVE MergeLoop_writes(_, _, _, _, _)
MergeLoop_writes(T, left, right, tail, key) ==
    IF left # None /\ right # None
    THEN IF LeftFirst(left, right, key)
         THEN LET T1 == Wr(Wr(T, "next", tail, left), "prev", left, tail)
              IN MergeLoop_writes(T1, T1.next[left], right, T1.next[tail], key)
         ELSE LET T1 == Wr(Wr(T, "next", tail, right), "prev", right, tail)
              IN MergeLoop_writes(T1, left, T1.next[right], T1.next[tail], key)
    ELSE LET remaining == IF left # None THEN left ELSE right
         IN IF remaining # None
            THEN Wr(Wr(T, "next", tail, remaining), "prev", remaining, tail)
            ELSE T

\* the new dummy has next and prev None
_merge_writes(T, left, right, key) ==
    LET T0 == Wr(Wr(T, "next", Dummy, None), "prev", Dummy, None)
        T1 == MergeLoop_writes(T0, left, right, Dummy, key)
        merged_head == T1.next[Dummy]
    IN [head |-> merged_head,
        T |-> IF merged_head # None THEN Wr(T1, "prev", merged_head, None)
              ELSE T1]

RECURSIVE merge_sort_writes(_, _, _)
merge_sort_writes(T, hd, key) ==
    IF hd = None \/ T.next[hd] = None
    THEN [head |-> hd, T |-> T]
    ELSE LET S == _split_writes(T, hd)
             l == merge_sort_writes(S.T, S.left, key)
             r == merge_sort_writes(l.T, S.right, key)
         IN _merge_writes(r.T, l.head, r.head, key)

\* the writes of "Re-establish count" from the node current on
RECURSIVE CountWrites(_, _, _)
CountWrites(nx, cur, k) ==
    IF cur = None THEN <<>>
    ELSE <<[f |-> "count", c |-> None, v |-> k + 1]>>
         \o CountWrites(nx, nx[cur], k + 1)

\* the writes of sort_by in program order; the last dummy is freed when
\* sort_by returns
sort_by_writes(L, key) ==
    LET m == merge_sort_writes([next |-> L.next, prev |-> L.prev,
                                log |-> <<>>], L.head, key)
        freed == IF m.T.next[Dummy] # None \/ m.T.prev[Dummy] # None
                 THEN <<[f |-> "next", c |-> Dummy, v |-> None],
                        [f |-> "prev", c |-> Dummy, v |-> None]>>
                 ELSE <<>>
    IN m.T.log
       \o <<[f |-> "head", c |-> None, v |-> m.head],
            [f |-> "count", c |-> None, v |-> 0]>>
       \o CountWrites(m.T.next, m.head, 0)
       \o freed

\* ---------------------------------------------- how long the loops run
\* more calls or iterations than any list of MaxNodes nodes can need
Overrun == 4 * MaxNodes + 4

\* the calls of merge_sort made to sort the segment at hd, itself included;
\* Overrun when they nest deeper than fuel
RECURSIVE merge_sort_calls(_, _, _, _)
merge_sort_calls(H, hd, key, fuel) ==
    IF fuel = 0 THEN Overrun
    ELSE IF hd = None \/ H.next[hd] = None THEN 1
    ELSE LET S == _split(H, hd)
             SH == [next |-> S.next, prev |-> S.prev]
             l == merge_sort(SH, S.left, key)
         IN 1 + merge_sort_calls(SH, S.left, key, fuel - 1)
              + merge_sort_calls([next |-> l.next, prev |-> l.prev],
                                 S.right, key, fuel - 1)

\* the iterations of the sweep loop of refresh_ui from current on; Overrun
\* when there are more than fuel
RECURSIVE sweep_iterations(_, _, _, _)
sweep_iterations(L, st, current, fuel) ==
    IF current = None THEN 0
    ELSE IF fuel = 0 THEN Overrun
    ELSE LET next_node == L.next[current]
             L2 == IF st[current] = "deleted"
                   THEN delete_task_node(L, current) ELSE L
         IN 1 + sweep_iterations(L2, st, next_node, fuel - 1)

\* ------------------------------------------------------------------- Init
NoOp == [name |-> "init", key |-> "", node |-> None, rep |-> FALSE]

\* DATA_FILE does not exist
NoFile == [exists |-> FALSE, total_xp |-> 0, tasks |-> <<>>]

\* no object constructed, and nothing outside the list touched
Blank ==
    /\ status = [c \in Nodes |-> NoNode.status]
    /\ priority = [c \in Nodes |-> NoNode.priority]
    /\ due_date = [c \in Nodes |-> NoNode.due_date]
    /\ description = [c \in Nodes |-> NoNode.description]
    /\ xp_value = [c \in Nodes |-> NoNode.xp_value]
    /\ tags = [c \in Nodes |-> NoNode.tags]
    /\ total_xp = 0
    /\ file = NoFile
    /\ result = <<>>
    /\ running = FALSE /\ NoThread

Init ==
    /\ head = None
    /\ count = 0
    /\ next = [c \in Cells |-> None]
    /\ prev = [c \in Cells |-> None]
    /\ Blank
    /\ nAlloc = 0
    /\ lastOp = NoOp
    /\ preList = <<>>
    /\ preCount = 0

\* ---------------------------------------------------------------- actions
Record(name, key, node) ==
    /\ lastOp' = [name |-> name, key |-> key, node |-> node,
                  rep |-> (name = "sort_by" /\ lastOp.name = "sort_by"
                           /\ lastOp.key = key)]
    /\ preList' = ListSeq
    /\ preCount' = count

Install(L) ==
    /\ head' = L.head
    /\ count' = L.count
    /\ next' = L.next
    /\ prev' = L.prev

\* add_task_node with a freshly constructed TaskNode (add_task, load_data)
AddTaskNode(t) ==
    /\ nAlloc < MaxNodes
    /\ LET new_task == nAlloc + 1
       IN /\ nAlloc' = new_task
          /\ Construct(new_task, TaskNode(t.description, t.priority,
                                          t.due_date, t.status, NoneXp))
          /\ Install(add_task_node(TheList, new_task))
          /\ Record("add_task_node", "", new_task)
          /\ UNCHANGED <<total_xp, file, result, running, thread>>

\* delete_task_node with a node that is in the list
DeleteTaskNode(node) ==
    /\ node \in Range(ListSeq)
    /\ Install(delete_task_node(TheList, node))
    /\ Record("delete_task_node", "", node)
    /\ UNCHANGED <<fields, nAlloc, total_xp, file, result, running, thread>>

Sweep ==
    /\ Install(SweepLoop(TheList, status, head))
    /\ Record("sweep", "", None)
    /\ UNCHANGED <<fields, nAlloc, total_xp, file, result, running, thread>>

SortBy(key) ==
    /\ Install(sort_by(TheList, key))
    /\ Record("sort_by", key, None)
    /\ UNCHANGED <<fields, nAlloc, total_xp, file, result, running, thread>>

Next ==
    \/ \E t \in TaskInputs : AddTaskNode(t)
    \/ \E node \in Nodes : DeleteTaskNode(node)
    \/ Sweep
    \/ \E key \in Keys : SortBy(key)

Spec == Init /\ [][Next]_vars

\* ------------------------------------------- sort_by on every bounded list
\* a list of n nodes as n calls of add_task_node build it, the nodes
\* carrying every combination of priority and due date
InitSort ==
    \E n \in 0..MaxNodes :
      \E pr \in [1..n -> Priorities], dd \in [1..n -> DueDates] :
        /\ head = (IF n = 0 THEN None ELSE 1)
        /\ count = n
        /\ next = [c \in Cells |-> IF c < n THEN c + 1 ELSE None]
        /\ prev = [c \in Cells |-> IF 1 < c /\ c <= n THEN c - 1 ELSE None]
        /\ status = [c \in Nodes |-> "todo"]
        /\ priority = [c \in Nodes |-> IF c <= n THEN pr[c] ELSE "medium"]
        /\ due_date = [c \in Nodes |-> IF c <= n THEN dd[c] ELSE NoneDate]
        /\ description = [c \in Nodes |-> IF c <= n THEN "a" ELSE ""]
        /\ xp_value = [c \in Nodes |->
                         DefaultXp(IF c <= n THEN pr[c] ELSE "medium")]
        /\ tags = [c \in Nodes |-> <<>>]
        /\ total_xp = 0
        /\ file = NoFile
        /\ result = <<>>
        /\ running = FALSE /\ NoThread
        /\ nAlloc = n
        /\ lastOp = NoOp
        /\ preList = <<>>
        /\ preCount = 0

NextSort == \E key \in Keys : SortBy(key)

SpecSort == InitSort /\ [][NextSort]_vars

\* ------------------------------------------------- _split on its own
\* one call of _split on the segment that starts at head, as merge_sort
\* makes it: the left half stays at head, result holds the two heads
Split ==
    /\ Len(ListSeq) >= 2
    /\ LET r == _split([next |-> next, prev |-> prev], head)
       IN /\ head' = r.left
          /\ next' = r.next
          /\ prev' = r.prev
          /\ result' = <<r.left, r.right>>
    /\ Record("_split", "", head)
    /\ UNCHANGED <<count, fields, nAlloc, total_xp, file, running, thread>>

NextSplit ==
    \/ Split
    \/ \E key \in Keys : lastOp.name # "_split" /\ SortBy(key)

SpecSplit == InitSort /\ [][NextSplit]_vars

\* --------------------------- get_tasks_by_status on every bounded list
\* a list of n nodes as n calls of add_task_node build it, the nodes
\* carrying every combination of statuses
InitFilter ==
    \E n \in 0..MaxNodes :
      \E st \in [1..n -> Statuses] :
        /\ head = (IF n = 0 THEN None ELSE 1)
        /\ count = n
        /\ next = [c \in Cells |-> IF c < n THEN c + 1 ELSE None]
        /\ prev = [c \in Cells |-> IF 1 < c /\ c <= n THEN c - 1 ELSE None]
        /\ status = [c \in Nodes |-> IF c <= n THEN st[c] ELSE "todo"]
        /\ priority = [c \in Nodes |-> "medium"]
        /\ due_date = [c \in Nodes |-> NoneDate]
        /\ description = [c \in Nodes |-> IF c <= n THEN "a" ELSE ""]
        /\ xp_value = [c \in Nodes |-> DefaultXp("medium")]
        /\ tags = [c \in Nodes |-> <<>>]
        /\ total_xp = 0
        /\ file = NoFile
        /\ result = <<>>
        /\ running = FALSE /\ NoThread
        /\ nAlloc = n
        /\ lastOp = NoOp
        /\ preList = <<>>
        /\ preCount = 0

\* KanbanColumn.refresh asks for the tasks of its column
GetTasksByStatus(s) ==
    /\ result' = get_tasks_by_status(TheList, status, s)
    /\ Record("get_tasks_by_status", s, None)
    /\ UNCHANGED <<head, count, next, prev, fields, nAlloc, total_xp, file,
                   running, thread>>

NextFilter == \E s \in Statuses : GetTasksByStatus(s)

SpecFilter == InitFilter /\ [][NextFilter]_vars

\* ------------------------------------- to_dict and from_dict on every task
Descriptions == {"Buy Groceries", "a"}

\* xp_value as the constructor is given it: the three defaults, and 0
XpInputs == {0, 20, 50, 100}

\* one TaskNode object with every combination of field values
InitTask ==
    \E d \in Descriptions, st \in Statuses, pr \in Priorities,
       dd \in DueDates, xp \in XpInputs :
        LET t == TaskNode(d, pr, dd, st, SomeXp(xp))
            At(c, f) == IF c = 1 THEN t[f] ELSE NoNode[f]
        IN /\ head = None
           /\ count = 0
           /\ next = [c \in Cells |-> None]
           /\ prev = [c \in Cells |-> None]
           /\ status = [c \in Nodes |-> At(c, "status")]
           /\ priority = [c \in Nodes |-> At(c, "priority")]
           /\ due_date = [c \in Nodes |-> At(c, "due_date")]
           /\ description = [c \in Nodes |-> At(c, "description")]
           /\ xp_value = [c \in Nodes |-> At(c, "xp_value")]
           /\ tags = [c \in Nodes |-> At(c, "tags")]
           /\ total_xp = 0
           /\ file = NoFile
           /\ result = <<>>
           /\ running = FALSE /\ NoThread
           /\ nAlloc = 1
           /\ lastOp = NoOp
           /\ preList = <<>>
           /\ preCount = 0

\* TaskNode.from_dict(t.to_dict()) for a TaskNode t
RoundTrip(t) ==
    /\ t \in 1..nAlloc
    /\ nAlloc < MaxNodes
    /\ LET r == from_dict(to_dict(t))
       IN IF r.ok
          THEN /\ nAlloc' = nAlloc + 1
               /\ Construct(nAlloc + 1, r.node)
               /\ result' = <<nAlloc + 1>>
          ELSE UNCHANGED <<fields, nAlloc, result>>
    /\ Record("from_dict", "", t)
    /\ UNCHANGED <<head, count, next, prev, total_xp, file, running, thread>>

NextTask == \E t \in Nodes : RoundTrip(t)

SpecTask == InitTask /\ [][NextTask]_vars

\* ------------------------------------------------------- App.load_data
\* the loop of load_data over data['tasks'] from record i on: the TaskNode
\* objects it constructs and adds.  The KeyError of from_dict leaves the
\* loop for the except clause.
RECURSIVE LoadLoop(_, _, _)
LoadLoop(tasks, i, loaded) ==
    IF i > Len(tasks) THEN loaded
    ELSE LET r == from_dict(tasks[i])
         IN IF r.ok THEN LoadLoop(tasks, i + 1, Append(loaded, r.node))
            ELSE loaded

\* load_data: total_xp and the objects added to the list, in order
load_data(f, xp) ==
    IF f.exists
    THEN [total_xp |-> f.total_xp, loaded |-> LoadLoop(f.tasks, 1, <<>>)]
    ELSE [total_xp |-> xp, loaded |-> <<>>]

\* add_task_node for the k objects in the cells from c on
RECURSIVE AddAll(_, _, _)
AddAll(L, c, k) ==
    IF k = 0 THEN L ELSE AddAll(add_task_node(L, c), c + 1, k - 1)

\* the objects ts are constructed in the cells after nAlloc
ConstructAll(ts) ==
    LET New(c, f, old) ==
            IF nAlloc < c /\ c <= nAlloc + Len(ts) THEN ts[c - nAlloc][f]
            ELSE old
    IN /\ nAlloc' = nAlloc + Len(ts)
       /\ description' = [c \in Nodes |-> New(c, "description", description[c])]
       /\ status' = [c \in Nodes |-> New(c, "status", status[c])]
       /\ priority' = [c \in Nodes |-> New(c, "priority", priority[c])]
       /\ due_date' = [c \in Nodes |-> New(c, "due_date", due_date[c])]
       /\ tags' = [c \in Nodes |-> New(c, "tags", tags[c])]
       /\ xp_value' = [c \in Nodes |-> New(c, "xp_value", xp_value[c])]

\* records of a data file: two as save_data writes them, and two that lack
\* a key
GoodRecordA ==
    [description |-> "Buy Groceries", status |-> "todo", priority |-> "low",
     due_date |-> NoneDate, xp_value |-> SomeXp(20)]

GoodRecordB ==
    [description |-> "a", status |-> "doing", priority |-> "high",
     due_date |-> Date_2025_11_20, xp_value |-> SomeXp(100)]

BadRecordNoPriority ==
    [description |-> "b", status |-> "todo",
     due_date |-> NoneDate, xp_value |-> SomeXp(50)]

BadRecordNoXp ==
    [description |-> "b", status |-> "done", priority |-> "medium",
     due_date |-> Date_2025_01_01]

FileRecords == {GoodRecordA, GoodRecordB, BadRecordNoPriority, BadRecordNoXp}

RECURSIVE SeqsUpTo(_, _)
SeqsUpTo(S, n) ==
    IF n = 0 THEN {<<>>}
    ELSE LET shorter == SeqsUpTo(S, n - 1)
         IN shorter \cup {Append(q, x) : q \in shorter, x \in S}

\* a new App and TaskList, and a data file of up to MaxNodes records
InitLoad ==
    /\ head = None
    /\ count = 0
    /\ next = [c \in Cells |-> None]
    /\ prev = [c \in Cells |-> None]
    /\ status = [c \in Nodes |-> NoNode.status]
    /\ priority = [c \in Nodes |-> NoNode.priority]
    /\ due_date = [c \in Nodes |-> NoNode.due_date]
    /\ description = [c \in Nodes |-> NoNode.description]
    /\ xp_value = [c \in Nodes |-> NoNode.xp_value]
    /\ tags = [c \in Nodes |-> NoNode.tags]
    /\ total_xp = 0
    /\ \E ts \in SeqsUpTo(FileRecords, MaxNodes), xp \in {0, 120} :
          file = [exists |-> TRUE, total_xp |-> xp, tasks |-> ts]
    /\ result = <<>>
    /\ running = FALSE /\ NoThread
    /\ nAlloc = 0
    /\ lastOp = NoOp
    /\ preList = <<>>
    /\ preCount = 0

\* load_data as App.__init__ calls it, on the new TaskList
LoadData ==
    /\ lastOp.name = "init"
    /\ LET d == load_data(file, total_xp)
       IN /\ Len(d.loaded) <= MaxNodes - nAlloc
          /\ total_xp' = d.total_xp
          /\ ConstructAll(d.loaded)
          /\ Install(AddAll(TheList, nAlloc + 1, Len(d.loaded)))
    /\ Record("load_data", "", None)
    /\ UNCHANGED <<file, result, running, thread>>

NextLoad == LoadData

SpecLoad == InitLoad /\ [][NextLoad]_vars

\* ------------------------------------------------ the App and its handlers
\* the largest total_xp that a Done button may produce
MaxXp == 120

\* the three tasks that App.__init__ adds on the first run
DefaultTasks ==
    << TaskNode("Finish Data Structures Project", "high", Date_2025_11_20,
                "todo", NoneXp),
       TaskNode("Buy Groceries", "low", NoneDate, "todo", NoneXp),
       TaskNode("Read Documentation", "medium", NoneDate, "todo", NoneXp) >>

\* what add_new_task reads from the form: description, priority, due date
FormInputs ==
    { [description |-> "a", priority |-> "high", due_date |-> Date_2025_01_01],
      [description |-> "",  priority |-> "low",  due_date |-> NoneDate] }

EmptyList ==
    [head |-> None, count |-> 0,
     next |-> [c \in Cells |-> None], prev |-> [c \in Cells |-> None]]

\* refresh_ui without "Handle deleted tasks"
refresh_ui_NoSweep(L, st, xp, xp_gain) ==
    [list |-> L,
     total_xp |-> IF xp_gain > 0 THEN xp + xp_gain ELSE xp]

\* refresh_ui: the XP update and the sweep (the columns are redrawn from
\* get_tasks_by_status and write nothing)
refresh_ui(L, st, xp, xp_gain) ==
    [list |-> SweepLoop(L, st, L.head),
     total_xp |-> IF xp_gain > 0 THEN xp + xp_gain ELSE xp]

\* move_next granting XP at every transition
move_next_Always(c) ==
    IF status[c] = "todo" THEN [status |-> "doing", xp_gain |-> xp_value[c]]
    ELSE IF status[c] = "doing" THEN [status |-> "done", xp_gain |-> xp_value[c]]
    ELSE [status |-> status[c], xp_gain |-> 0]

\* TaskCard.move_next: the new status and the xp_gain handed to refresh_ui
move_next(c) ==
    IF status[c] = "todo" THEN [status |-> "doing", xp_gain |-> 0]
    ELSE IF status[c] = "doing" THEN [status |-> "done", xp_gain |-> xp_value[c]]
    ELSE [status |-> status[c], xp_gain |-> 0]

\* TaskCard.move_prev
move_prev(c) == IF status[c] = "doing" THEN "todo" ELSE status[c]

\* save_data: the content of the file (json.dump and json.load keep str,
\* int and None values as they are)
save_data(L, xp) ==
    LET ts == get_all_tasks(L.head, L.next)
    IN [exists |-> TRUE,
        total_xp |-> xp,
        tasks |-> [i \in 1..Len(ts) |-> to_dict(ts[i])]]

\* App.__init__ in a new process: load_data, then the default tasks on the
\* first run, then the notifier is started
AppInit ==
    /\ ~running
    /\ LET is_first_run == ~file.exists
           d == load_data(file, 0)
           ts == IF Len(d.loaded) = 0 /\ is_first_run THEN DefaultTasks
                 ELSE d.loaded
           At(c, f) == IF c <= Len(ts) THEN ts[c][f] ELSE NoNode[f]
       IN /\ Len(ts) <= MaxNodes
          /\ total_xp' = d.total_xp
          /\ nAlloc' = Len(ts)
          /\ description' = [c \in Nodes |-> At(c, "description")]
          /\ status' = [c \in Nodes |-> At(c, "status")]
          /\ priority' = [c \in Nodes |-> At(c, "priority")]
          /\ due_date' = [c \in Nodes |-> At(c, "due_date")]
          /\ tags' = [c \in Nodes |-> At(c, "tags")]
          /\ xp_value' = [c \in Nodes |-> At(c, "xp_value")]
          /\ Install(AddAll(EmptyList, 1, Len(ts)))
    /\ running' = TRUE /\ UNCHANGED thread
    /\ Record("App.__init__", "", None)
    /\ UNCHANGED <<file, result>>

\* the card of a task exists when the task is in the list and a column
\* shows its status
HasCard(c, st) == running /\ c \in Range(ListSeq) /\ status[c] = st

\* the Start and Done buttons
MoveNext(c) ==
    /\ HasCard(c, "todo") \/ HasCard(c, "doing")
    /\ LET m == move_next(c)
           st == [status EXCEPT ![c] = m.status]
           r == refresh_ui(TheList, st, total_xp, m.xp_gain)
       IN /\ r.total_xp <= MaxXp
          /\ status' = st
          /\ total_xp' = r.total_xp
          /\ Install(r.list)
    /\ Record("move_next", "", c)
    /\ UNCHANGED <<priority, due_date, description, xp_value, tags, nAlloc,
                   file, result, running, thread>>

\* the Back button
MovePrev(c) ==
    /\ HasCard(c, "doing")
    /\ LET st == [status EXCEPT ![c] = move_prev(c)]
           r == refresh_ui(TheList, st, total_xp, 0)
       IN /\ status' = st
          /\ total_xp' = r.total_xp
          /\ Install(r.list)
    /\ Record("move_prev", "", c)
    /\ UNCHANGED <<priority, due_date, description, xp_value, tags, nAlloc,
                   file, result, running, thread>>

\* the Delete button
DeleteMe(c) ==
    /\ HasCard(c, "done")
    /\ LET st == [status EXCEPT ![c] = "deleted"]
           r == refresh_ui(TheList, st, total_xp, 0)
       IN /\ status' = st
          /\ total_xp' = r.total_xp
          /\ Install(r.list)
    /\ Record("delete_me", "", c)
    /\ UNCHANGED <<priority, due_date, description, xp_value, tags, nAlloc,
                   file, result, running, thread>>

\* the Add Task button; with an empty description it does nothing
AddNewTask(in) ==
    /\ running
    /\ IF in.description # ""
       THEN /\ nAlloc < MaxNodes
            /\ nAlloc' = nAlloc + 1
            /\ LET t == TaskNode(in.description, in.priority, in.due_date,
                                 "todo", NoneXp)
                   L == add_task_node(TheList, nAlloc + 1)
                   st == [status EXCEPT ![nAlloc + 1] = t.status]
                   r == refresh_ui(L, st, total_xp, 0)
               IN /\ Construct(nAlloc + 1, t)
                  /\ total_xp' = r.total_xp
                  /\ Install(r.list)
                  /\ Record("add_new_task", "", nAlloc + 1)
       ELSE UNCHANGED <<head, count, next, prev, fields, nAlloc, total_xp,
                        lastOp, preList, preCount>>
    /\ UNCHANGED <<file, result, running, thread>>

\* the Sort By box
SortTasks(key) ==
    /\ running
    /\ LET r == refresh_ui(sort_by(TheList, key), status, total_xp, 0)
       IN /\ total_xp' = r.total_xp
          /\ Install(r.list)
    /\ Record("sort_tasks", key, None)
    /\ UNCHANGED <<fields, nAlloc, file, result>>
    /\ UNCHANGED <<running, thread>>

\* the window is closed: the data is saved and the notifier stopped
OnClosing ==
    /\ running
    /\ file' = save_data(TheList, total_xp)
    /\ running' = FALSE /\ UNCHANGED thread
    /\ Record("on_closing", "", None)
    /\ UNCHANGED <<head, count, next, prev, fields, nAlloc, total_xp, result>>

NextApp ==
    \/ AppInit
    \/ \E c \in Nodes : MoveNext(c)
    \/ \E c \in Nodes : MovePrev(c)
    \/ \E c \in Nodes : DeleteMe(c)
    \/ \E in \in FormInputs : AddNewTask(in)
    \/ \E key \in Keys : SortTasks(key)
    \/ OnClosing

\* a data file left by an earlier run, with an XP value of its own
OldRecord ==
    [description |-> "Read Documentation", status |-> "doing",
     priority |-> "medium", due_date |-> NoneDate, xp_value |-> SomeXp(30)]

OldFileXp == 10

\* before the first start of the App: no data file, or the one of an earlier run
InitApp ==
    /\ head = None
    /\ count = 0
    /\ next = [c \in Cells |-> None]
    /\ prev = [c \in Cells |-> None]
    /\ status = [c \in Nodes |-> NoNode.status]
    /\ priority = [c \in Nodes |-> NoNode.priority]
    /\ due_date = [c \in Nodes |-> NoNode.due_date]
    /\ description = [c \in Nodes |-> NoNode.description]
    /\ xp_value = [c \in Nodes |-> NoNode.xp_value]
    /\ tags = [c \in Nodes |-> NoNode.tags]
    /\ total_xp = 0
    /\ file \in {NoFile,
                 [exists |-> TRUE, total_xp |-> OldFileXp,
                  tasks |-> <<OldRecord>>]}
    /\ result = <<>>
    /\ running = FALSE /\ NoThread
    /\ nAlloc = 0
    /\ lastOp = NoOp
    /\ preList = <<>>
    /\ preCount = 0

SpecApp == InitApp /\ [][NextApp]_vars

\* ------------------------- the notifier thread beside the owner thread
\* how many sort_by calls the owner thread makes
MaxSorts == 1

\* the tasks the lists of this specification are made of
RaceInputs ==
    { [description |-> "a", priority |-> "high", due_date |-> Date_2025_11_20,
       status |-> "todo"],
      [description |-> "c", priority |-> "medium", due_date |-> Date_2025_01_01,
       status |-> "done"] }

\* a list of 0..MaxNodes tasks, the App running, the notifier not started
InitRace ==
    \E n \in 0..MaxNodes :
      \E ts \in [1..n -> RaceInputs] :
        LET At(c, f) == IF c <= n THEN ts[c][f] ELSE NoNode[f]
        IN /\ head = (IF n = 0 THEN None ELSE 1)
           /\ count = n
           /\ next = [c \in Cells |-> IF c < n THEN c + 1 ELSE None]
           /\ prev = [c \in Cells |-> IF 1 < c /\ c <= n THEN c - 1 ELSE None]
           /\ status = [c \in Nodes |-> At(c, "status")]
           /\ priority = [c \in Nodes |-> At(c, "priority")]
           /\ due_date = [c \in Nodes |-> At(c, "due_date")]
           /\ description = [c \in Nodes |-> At(c, "description")]
           /\ xp_value = [c \in Nodes |->
                            IF c <= n THEN DefaultXp(ts[c].priority)
                            ELSE NoNode.xp_value]
           /\ tags = [c \in Nodes |-> NoNode.tags]
           /\ total_xp = 0
           /\ file = NoFile
           /\ result = <<>>
           /\ running = FALSE /\ NoThread
           /\ nAlloc = n
           /\ lastOp = NoOp
           /\ preList = <<>>
           /\ preCount = 0

owner == <<head, count, next, prev, fields, nAlloc, total_xp, file, result,
           lastOp, preList, preCount, pending, sorts>>

\* NotificationService.start: the flag is set and the thread started
Start ==
    /\ ~running
    /\ scanPc = "off"
    /\ running' = TRUE
    /\ scanPc' = "while"
    /\ UNCHANGED <<owner, scanCur, visited, raced>>

\* the loop test reading True whatever the flag is
ScanWhile_Forever ==
    /\ scanPc = "while"
    /\ scanPc' = "head"
    /\ UNCHANGED <<owner, running, scanCur, visited, raced>>

\* "while self.running": the thread reads the flag
ScanWhile ==
    /\ scanPc = "while"
    /\ scanPc' = IF running THEN "head" ELSE "exit"
    /\ UNCHANGED <<owner, running, scanCur, visited, raced>>

\* "current = self.task_list.head": a pass begins
ScanHead ==
    /\ scanPc = "head"
    /\ scanCur' = head
    /\ visited' = <<>>
    /\ raced' = (pending # <<>>)
    /\ scanPc' = "inner"
    /\ UNCHANGED <<owner, running>>

\* one iteration of "while current": the node is looked at (its due_date,
\* status and description are read) and current moves to current.next
ScanVisit ==
    /\ scanPc = "inner"
    /\ IF scanCur # None
       THEN /\ visited' = Append(visited, scanCur)
            /\ scanCur' = next[scanCur]
            /\ scanPc' = scanPc
       ELSE /\ scanPc' = "sleep"
            /\ UNCHANGED <<scanCur, visited>>
    /\ UNCHANGED <<owner, running, raced>>

\* time.sleep(60) returns
ScanWake ==
    /\ scanPc = "sleep"
    /\ scanPc' = "while"
    /\ UNCHANGED <<owner, running, scanCur, visited, raced>>

\* the owner thread enters sort_by(key)
BeginSort(key) ==
    /\ running
    /\ pending = <<>>
    /\ sorts < MaxSorts
    /\ pending' = sort_by_writes(TheList, key)
    /\ sorts' = sorts + 1
    /\ raced' = (raced \/ scanPc = "inner")
    /\ Record("sort_by", key, None)
    /\ UNCHANGED <<head, count, next, prev, fields, nAlloc, total_xp, file,
                   result, running, scanPc, scanCur, visited>>

\* the owner thread makes the next write of sort_by
SortStep ==
    /\ pending # <<>>
    /\ LET w == Head(pending)
       IN /\ head' = IF w.f = "head" THEN w.v ELSE head
          /\ count' = IF w.f = "count" THEN w.v ELSE count
          /\ next' = IF w.f = "next" THEN [next EXCEPT ![w.c] = w.v] ELSE next
          /\ prev' = IF w.f = "prev" THEN [prev EXCEPT ![w.c] = w.v] ELSE prev
    /\ pending' = Tail(pending)
    /\ UNCHANGED <<fields, nAlloc, total_xp, file, result, running,
                   lastOp, preList, preCount,
                   scanPc, scanCur, visited, raced, sorts>>

\* the owner thread runs one handler at a time
Close == pending = <<>> /\ OnClosing

NextRace ==
    \/ Start
    \/ ScanWhile
    \/ ScanHead
    \/ ScanVisit
    \/ ScanWake
    \/ \E key \in Keys : BeginSort(key)
    \/ SortStep
    \/ Close

SpecRace == InitRace /\ [][NextRace]_vars

\* the scheduler lets the notifier thread run
SpecRaceFair ==
    /\ SpecRace
    /\ WF_vars(ScanWhile)
    /\ WF_vars(ScanHead)
    /\ WF_vars(ScanVisit)
    /\ WF_vars(ScanWake)

\* ------------------------------------ add and delete with any TaskNode
\* how far delete_task_node may drive count below zero in SpecMisuse
MaxDeficit == 1

\* the task of the objects of SpecMisuse: the second default task
MisuseInput ==
    [description |-> "Buy Groceries", priority |-> "low",
     due_date |-> NoneDate, status |-> "todo"]

\* the forward traversal from head ends (the loops over the list return)
Acyclic == Len(Traverse(head, next, MaxNodes + 1)) <= MaxNodes

\* a TaskNode is constructed and not added
NewTaskNode ==
    /\ nAlloc < MaxNodes
    /\ nAlloc' = nAlloc + 1
    /\ Construct(nAlloc + 1,
                 TaskNode(MisuseInput.description, MisuseInput.priority,
                          MisuseInput.due_date, MisuseInput.status, NoneXp))
    /\ Record("TaskNode", "", nAlloc + 1)
    /\ UNCHANGED <<head, count, next, prev, total_xp, file, result, running, thread>>

\* add_task_node with any TaskNode object: never added, in the list, or
\* removed from it.  On a list with a cycle the loop to the tail does not
\* return.
AddAnyNode(node) ==
    /\ node \in 1..nAlloc
    /\ Acyclic
    /\ Install(add_task_node(TheList, node))
    /\ Record("add_task_node", "", node)
    /\ UNCHANGED <<fields, nAlloc, total_xp, file, result, running, thread>>

\* delete_task_node with any TaskNode object
DeleteAnyNode(node) ==
    /\ node \in 1..nAlloc
    /\ count > -MaxDeficit
    /\ Install(delete_task_node(TheList, node))
    /\ Record("delete_task_node", "", node)
    /\ UNCHANGED <<fields, nAlloc, total_xp, file, result, running, thread>>

NextMisuse ==
    \/ NewTaskNode
    \/ \E node \in Nodes : AddAnyNode(node)
    \/ \E node \in Nodes : DeleteAnyNode(node)

SpecMisuse == Init /\ [][NextMisuse]_vars

\* ------------------------------------------------------------ properties
Pos(s, x) == CHOOSE i \in 1..Len(s) : s[i] = x

Before(s, x, y) ==
    /\ x \in Range(s)
    /\ y \in Range(s)
    /\ Pos(s, x) < Pos(s, y)

Sorted(key) == lastOp.name = "sort_by" /\ lastOp.key = key

\* C1: count equals the number of nodes reached by following next from head
CountAccurate == count = Len(ListSeq)

CountAccurateWitness ==
    /\ lastOp.name = "sweep"
    /\ Len(preList) = 3
    /\ count = 1

\* C2: the list is a well-formed doubly linked chain: head.prev is None, the
\* last node's next is None, and the links of every node are symmetric
WellFormed ==
    /\ head # None => prev[head] = None
    /\ Len(ListSeq) <= MaxNodes
    /\ ListSeq # <<>> => next[ListSeq[Len(ListSeq)]] = None
    /\ \A i \in 1..Len(ListSeq) :
          LET n == ListSeq[i]
          IN /\ next[n] # None => prev[next[n]] = n
             /\ prev[n] # None => next[prev[n]] = n

WellFormedWitness ==
    /\ lastOp.name = "delete_task_node"
    /\ Len(preList) = 3
    /\ lastOp.node = preList[2]
    /\ nAlloc = 3
    /\ preList # <<1, 2, 3>>

\* C3: after sort_by("priority") every adjacent pair (a, b) has
\* priorityValue(a) >= priorityValue(b)
PriorityOrdered ==
    Sorted("priority") =>
        \A i \in 1..(Len(ListSeq) - 1) :
            priorityValue(priority[ListSeq[i]])
                >= priorityValue(priority[ListSeq[i + 1]])

PriorityOrderedWitness ==
    /\ Sorted("priority")
    /\ Len(preList) = 3
    /\ priority[preList[1]] = "low"
    /\ priority[preList[2]] = "high"
    /\ priority[preList[3]] = "medium"
    /\ ListSeq = <<preList[2], preList[3], preList[1]>>

\* C4: after sort_by("due_date") every adjacent pair (a, b) has
\* dueDateOrMax(a) <= dueDateOrMax(b), compared as strings
DueDateOrdered ==
    Sorted("due_date") =>
        \A i \in 1..(Len(ListSeq) - 1) :
            LexLE(dueDateOrMax(due_date[ListSeq[i]]).chars,
                  dueDateOrMax(due_date[ListSeq[i + 1]]).chars)

DueDateOrderedWitness ==
    /\ Sorted("due_date")
    /\ Len(preList) = 3
    /\ due_date[preList[1]] = NoneDate
    /\ due_date[preList[2]] = Date_2025_11_20
    /\ due_date[preList[3]] = Date_2025_01_01
    /\ ListSeq = <<preList[3], preList[2], preList[1]>>

Stable ==
    lastOp.name = "sort_by" =>
        /\ \A x, y \in Range(preList) :
              (/\ get_value(x, lastOp.key) = get_value(y, lastOp.key)
               /\ Before(preList, x, y)) => Before(ListSeq, x, y)
        /\ (\A x, y \in Range(preList) :
               get_value(x, lastOp.key) = get_value(y, lastOp.key))
              => ListSeq = preList

StableWitness ==
    /\ Sorted("priority")
    /\ Len(preList) = 3
    /\ priority[preList[1]] = "low"
    /\ priority[preList[2]] = "high"
    /\ priority[preList[3]] = "low"
    /\ ListSeq = <<preList[2], preList[1], preList[3]>>

\* C7: sort_by is idempotent: a second sort_by with the same key leaves the
\* order that the first one produced
Idempotent == lastOp.rep => ListSeq = preList

IdempotentWitness ==
    /\ lastOp.rep
    /\ Len(ListSeq) = 3
    /\ ListSeq # <<1, 2, 3>>
    /\ \E i, j \in 1..3 :
          i # j /\ get_value(ListSeq[i], lastOp.key)
                     = get_value(ListSeq[j], lastOp.key)

\* C8: sort_by only reorders: the same nodes, each once, without the merge
\* dummy, and the same count
OnlyReorders ==
    lastOp.name = "sort_by" =>
        /\ Range(ListSeq) = Range(preList)
        /\ Len(ListSeq) = Len(preList)
        /\ Dummy \notin Range(ListSeq)
        /\ count = preCount

OnlyReordersWitness ==
    /\ Sorted("due_date")
    /\ Len(preList) = 3
    /\ ListSeq = <<preList[2], preList[3], preList[1]>>
    /\ count = 3

\* C9: one sweep leaves exactly the nodes that are not "deleted", in their
\* order, and count is their number
Live(n) == status[n] # "deleted"

SweepCorrect ==
    lastOp.name = "sweep" =>
        /\ ListSeq = SelectSeq(preList, Live)
        /\ count = Len(ListSeq)

SweepCorrectWitness ==
    /\ lastOp.name = "sweep"
    /\ Len(preList) = 3
    /\ ~Live(preList[1])
    /\ ~Live(preList[2])
    /\ Live(preList[3])
    /\ ListSeq = <<preList[3]>>

\* C10: delete_task_node(n) of a node in the list removes n only, links its
\* neighbours to each other, updates head and decreases count by one
Without(s, i) == [k \in 1..(Len(s) - 1) |-> IF k < i THEN s[k] ELSE s[k + 1]]

DeleteCorrect ==
    lastOp.name = "delete_task_node" =>
        LET i == Pos(preList, lastOp.node)
            n == Len(preList)
        IN /\ ListSeq = Without(preList, i)
           /\ count = preCount - 1
           /\ head = (IF n = 1 THEN None
                      ELSE IF i = 1 THEN preList[2] ELSE preList[1])
           /\ (1 < i /\ i < n) =>
                 /\ next[preList[i - 1]] = preList[i + 1]
                 /\ prev[preList[i + 1]] = preList[i - 1]
           /\ (i = 1 /\ n > 1) => prev[preList[2]] = None
           /\ (i = n /\ n > 1) => next[preList[n - 1]] = None

DeleteCorrectWitness ==
    /\ lastOp.name = "delete_task_node"
    /\ Len(preList) = 3
    /\ lastOp.node = preList[2]
    /\ ListSeq = <<preList[1], preList[3]>>
    /\ next[preList[1]] = preList[3]
    /\ prev[preList[3]] = preList[1]

\* C11: delete_task_node with a node that is not in the list changes neither
\* head nor count nor any link of the nodes of the list
NonMemberDeleteNoOp ==
    [][(/\ lastOp'.name = "delete_task_node"
        /\ lastOp' # lastOp \/ preCount' # preCount \/ count' # count
        /\ lastOp'.node \notin Range(ListSeq))
       => /\ head' = head
          /\ count' = count
          /\ \A n \in Range(ListSeq) :
                next'[n] = next[n] /\ prev'[n] = prev[n]]_vars

\* C19: no node appears twice in the forward traversal from head, which
\* ends
NoRepeat ==
    LET s == Traverse(head, next, MaxNodes + 1)
    IN /\ Len(s) <= MaxNodes
       /\ \A i, j \in 1..Len(s) : i # j => s[i] # s[j]

\* C12: get_tasks_by_status(s) returns exactly the nodes of status s, each
\* once and in list order, leaves the list and the nodes unchanged, and
\* returns the same sequence when called again
FilterCorrect ==
    [][lastOp'.name = "get_tasks_by_status" =>
         LET s == lastOp'.key
             HasStatus(n) == status[n] = s
         IN /\ result' = SelectSeq(ListSeq, HasStatus)
            /\ UNCHANGED <<head, count, next, prev, fields>>
            /\ (lastOp.name = "get_tasks_by_status" /\ lastOp.key = s)
                  => result' = result]_vars

FilterCorrectWitness ==
    /\ lastOp.name = "get_tasks_by_status"
    /\ lastOp.key = "doing"
    /\ Len(ListSeq) = 3
    /\ status[ListSeq[2]] = "done"
    /\ result = <<ListSeq[1], ListSeq[3]>>

IsComplete(data) == RequiredKeys \subseteq DOMAIN data

FailSoftLoad ==
    lastOp.name = "load_data" =>
        LET good == SelectSeq(file.tasks, IsComplete)
        IN /\ Len(ListSeq) = Len(good)
           /\ \A i \in 1..Len(good) :
                 to_dict(ListSeq[i]) = good[i]

\* C15: over the TaskCard actions total_xp grows by a task's xp_value at the
\* step that takes the task from doing to done and at no other step, and a
\* task that is done never becomes todo or doing again, in this run of the
\* App or after it was saved and loaded
XpOncePerTask ==
    [][/\ lastOp'.name \in {"move_next", "move_prev", "delete_me"} =>
            LET c == lastOp'.node
            IN total_xp' = total_xp
                 + (IF status[c] = "doing" /\ status'[c] = "done"
                    THEN xp_value[c] ELSE 0)
       /\ lastOp'.name # "App.__init__" =>
            \A c \in 1..nAlloc :
                status[c] \in {"done", "deleted"}
                    => status'[c] \in {"done", "deleted"}
       /\ (lastOp'.name = "App.__init__" /\ lastOp.name = "on_closing") =>
            /\ Len(ListSeq') = Len(ListSeq)
            /\ \A i \in 1..Len(ListSeq) :
                  status'[ListSeq'[i]] = status[ListSeq[i]]
            /\ total_xp' = total_xp]_vars

XpOncePerTaskWitness ==
    /\ lastOp.name = "move_next"
    /\ status[lastOp.node] = "done"
    /\ xp_value[lastOp.node] = 20
    /\ total_xp = 120
    /\ file.exists
    /\ file.total_xp = 100

\* C16: no record of the data file has status "deleted", and no node of the
\* list has it when a handler has returned
NoTombstoneSaved ==
    /\ \A i \in 1..Len(file.tasks) : file.tasks[i].status # "deleted"
    /\ \A c \in Range(ListSeq) : status[c] # "deleted"

NoTombstoneSavedWitness ==
    /\ lastOp.name = "on_closing"
    /\ Len(file.tasks) = 2
    /\ nAlloc = 3
    /\ \E c \in 1..nAlloc : status[c] = "deleted" /\ c \notin Range(ListSeq)

\* C18: xp_value is 100, 50 or 20 by priority when a task is created, and
\* no handler changes it; save and load keep it
XpFixed ==
    [][/\ lastOp'.name # "App.__init__" =>
            \A c \in 1..nAlloc : xp_value'[c] = xp_value[c]
       /\ (lastOp'.name = "add_new_task" /\ nAlloc' = nAlloc + 1) =>
            xp_value'[nAlloc'] = (CASE priority'[nAlloc'] = "high" -> 100
                                    [] priority'[nAlloc'] = "medium" -> 50
                                    [] priority'[nAlloc'] = "low" -> 20)
       /\ (lastOp'.name = "App.__init__" /\ ~file.exists) =>
            \A c \in 1..nAlloc' :
                xp_value'[c] = (CASE priority'[c] = "high" -> 100
                                  [] priority'[c] = "medium" -> 50
                                  [] priority'[c] = "low" -> 20)
       /\ (lastOp'.name = "App.__init__" /\ file.exists) =>
            /\ Len(ListSeq') = Len(file.tasks)
            /\ \A i \in 1..Len(file.tasks) :
                  SomeXp(xp_value'[ListSeq'[i]]) = file.tasks[i].xp_value
       /\ lastOp'.name = "on_closing" =>
            /\ Len(file'.tasks) = Len(ListSeq)
            /\ \A i \in 1..Len(ListSeq) :
                  file'.tasks[i].xp_value = SomeXp(xp_value[ListSeq[i]])]_vars

XpFixedWitness ==
    /\ lastOp.name = "App.__init__"
    /\ file.exists
    /\ Len(ListSeq) = 2
    /\ \E c \in Range(ListSeq) :
          /\ description[c] = "a" /\ xp_value[c] = 100 /\ status[c] = "doing"
    /\ \E c \in Range(ListSeq) :
          /\ priority[c] = "medium" /\ xp_value[c] = 30 /\ status[c] = "done"
    /\ total_xp = OldFileXp + 30

\* C20: _split on a segment of n >= 2 nodes returns the first ceil(n/2)
\* nodes as left and the remaining floor(n/2) nodes as right, in the
\* original order, and each half has prev None at its first node, next None
\* at its last node and symmetric links in between
SplitHalves ==
    lastOp.name = "_split" =>
        LET n == Len(preList)
            k == (n + 1) \div 2
            left == Traverse(result[1], next, MaxNodes + 1)
            right == Traverse(result[2], next, MaxNodes + 1)
            Half(h) ==
                /\ h # <<>>
                /\ prev[h[1]] = None
                /\ next[h[Len(h)]] = None
                /\ \A i \in 1..(Len(h) - 1) :
                      next[h[i]] = h[i + 1] /\ prev[h[i + 1]] = h[i]
        IN /\ n >= 2
           /\ left = SubSeq(preList, 1, k)
           /\ right = SubSeq(preList, k + 1, n)
           /\ Half(left)
           /\ Half(right)

SplitHalvesWitness ==
    /\ lastOp.name = "_split"
    /\ preList = <<3, 1, 2>>
    /\ Traverse(result[1], next, MaxNodes + 1) = <<3, 1>>
    /\ Traverse(result[2], next, MaxNodes + 1) = <<2>>
    /\ prev[2] = None

\* C17: on every list that add, delete, sweep and sort produce, sort_by
\* makes 2n - 1 calls of merge_sort for n >= 1 nodes (one for the empty list)
\* and the sweep makes n iterations; on the empty list both leave head None
\* and count 0, and sort_by leaves a single-node list as it is
SortSweepTerminate ==
    [][LET n == Len(ListSeq)
       IN /\ lastOp'.name = "sort_by" =>
               /\ Len(Traverse(head, next, MaxNodes + 1)) <= MaxNodes
               /\ merge_sort_calls([next |-> next, prev |-> prev], head,
                                   lastOp'.key, n + 1)
                    = (IF n = 0 THEN 1 ELSE 2 * n - 1)
               /\ n = 0 => head' = None /\ count' = 0
               /\ n = 1 => /\ head' = head /\ count' = 1
                           /\ next' = next /\ prev' = prev
          /\ lastOp'.name = "sweep" =>
               /\ sweep_iterations(TheList, status, head, n) = n
               /\ n = 0 => head' = None /\ count' = 0]_vars

SortSweepTerminateWitness ==
    /\ lastOp.name = "sort_by"
    /\ lastOp.key = "due_date"
    /\ Len(preList) = 3
    /\ ListSeq # preList
    /\ count = 3

\* C21: a pass of _check_loop that overlaps a sort_by can end having
\* skipped a node of the list or having looked at a node twice (the
\* witnesses); a pass that overlaps no sort_by looks at every node of the
\* list exactly once
CleanPass ==
    (scanPc = "sleep" /\ ~raced) =>
        /\ Len(visited) = nAlloc
        /\ Range(visited) = 1..nAlloc

\* the pass ended without looking at a node that was in the list throughout
ScanRaceWitness ==
    /\ scanPc = "sleep"
    /\ raced
    /\ nAlloc = MaxNodes
    /\ \E n \in 1..nAlloc : n \notin Range(visited)

\* the pass ended having looked at a node twice
ScanTwiceWitness ==
    /\ scanPc = "sleep"
    /\ raced
    /\ \E i, j \in 1..Len(visited) : i # j /\ visited[i] = visited[j]

\* C22: once on_closing has set running to False, the thread of
\* _check_loop, when it is scheduled, ends the pass it is in and leaves the
\* loop for good without beginning a pass; and no step of the thread writes
\* head, count, a link or a field of a node
ScanStops ==
    /\ (~running /\ scanPc # "off") ~> (scanPc = "exit")
    /\ [][(~running /\ scanPc = "while") => scanPc' # "head"]_vars
    /\ [][scanPc = "exit" => scanPc' = "exit"]_vars
    /\ [][<<scanPc, scanCur, visited>>' # <<scanPc, scanCur, visited>>
            => UNCHANGED <<head, count, next, prev, fields>>]_vars

ScanStopsWitness ==
    /\ scanPc = "exit"
    /\ ~running
    /\ file.exists
    /\ Len(visited) = MaxNodes
    /\ sorts = MaxSorts

====
